---- MODULE Spec2Model ----
(***************************************************************************)
(* Task manager core: the Task record (task_manager/task.py), the two      *)
(* storage backends (task_manager/storage.py) and TaskService              *)
(* (task_manager/service.py).                                              *)
(*                                                                         *)
(* The same sequence of TaskService calls is issued to two services, one   *)
(* over a fresh InMemoryStorage and one over a fresh JSONStorage.          *)
(* Python objects are modelled by a heap (a sequence of Task records, a    *)
(* reference is an index into it) so that the aliasing InMemoryStorage     *)
(* keeps (list.copy() is shallow) is part of the model.  A JSON file is a  *)
(* text, kept together with the list json.load makes of it (a sequence of  *)
(* JSON objects whose values are JSON tokens).                             *)
(* Python's None is the model value None; list indices are 0-based in the  *)
(* operations' arguments as in the source.                                 *)
(***************************************************************************)
EXTENDS Integers, Sequences, FiniteSets, TLC

\* ------------------------------------------------------------------ bounds
MaxObjs == 2      \* Task objects the caller constructs
MaxTasks == 2     \* length of the stored collection
MaxOps == 3       \* service calls in one run

\* ------------------------------------------------------------ value domains
None == "None"
\* A file: whether it exists, its text, whether json.load rejects the text
\* (garbled: empty, cut short, or pieces of several texts), and the records
\* of the list json.load makes of it.
NoFile == [exists |-> FALSE, garbled |-> FALSE, content |-> <<>>, text |-> ""]
FieldNames == {"title", "description", "priority", "due_date", "completed",
               "id", "created_at"}
Uuids == <<"u1", "u2", "u3", "u4">>        \* what uuid.uuid4() yields, in order
Times == <<"t1", "t2", "t3", "t4">>        \* what datetime.now() yields, in order
\* what uuid.uuid4() and datetime.now().isoformat() give the k-th Task that
\* from_dict builds from a record lacking "id" or "created_at": a value no
\* other call gives
RegenId(k) == "u-regenerated-" \o ToString(k)
RegenTime(k) == "t-regenerated-" \o ToString(k)

\* a datetime.date object as due_date: json.dump raises TypeError on it
DateObject == "datetime.date(2026, 1, 1)"

\* ---------------------------------------------------------------- task.py
\* variant: low is missing from the list
valid_priorities_NoLow == {"medium", "high"}

valid_priorities == {"low", "medium", "high"}

Get(kwargs, k, default) == IF k \in DOMAIN kwargs THEN kwargs[k] ELSE default

\* Task(**kwargs): the dataclass __init__ with its defaults, then
\* __post_init__.  uuid4 and now are what the default factories return.
\* __init__ raises TypeError when title is missing or a keyword is unknown.
Task(kwargs, uuid4, now) ==
  IF "title" \notin DOMAIN kwargs \/ ~(DOMAIN kwargs \subseteq FieldNames)
    THEN [ok |-> FALSE, err |-> "TypeError"]
  ELSE
  LET self == [title       |-> kwargs["title"],
               description |-> Get(kwargs, "description", ""),
               priority    |-> Get(kwargs, "priority", "medium"),
               due_date    |-> Get(kwargs, "due_date", None),
               completed   |-> Get(kwargs, "completed", FALSE),
               id          |-> Get(kwargs, "id", uuid4),
               created_at  |-> Get(kwargs, "created_at", now)]
  IN IF self.priority \notin valid_priorities
       THEN [ok |-> FALSE, err |-> "ValueError"]
       ELSE [ok |-> TRUE, task |-> self]

\* task.to_dict(): the method is found unless setattr has put something
\* else under its name on the object
to_dict_callable(self) == "to_dict" \notin DOMAIN self

to_dict(self) ==
  [k \in FieldNames |-> self[k]]

\* Task.from_dict(data); uuid4 and now are what the default factories return
\* if data lacks "id" or "created_at"
from_dict(data, uuid4, now) == Task(data, uuid4, now)

\* the other names dir(task) lists: the methods of Task and what dataclass
\* and object give every instance
Methods == {"to_dict", "from_dict", "__post_init__"}
ObjectAttributes ==
  {"__annotations__", "__class__", "__dataclass_fields__",
   "__dataclass_params__", "__delattr__", "__dict__", "__dir__", "__doc__",
   "__eq__", "__format__", "__ge__", "__getattribute__", "__getstate__",
   "__gt__", "__hash__", "__init__", "__init_subclass__", "__le__",
   "__lt__", "__match_args__", "__module__", "__ne__", "__new__",
   "__reduce__", "__reduce_ex__", "__repr__", "__setattr__", "__sizeof__",
   "__str__", "__subclasshook__", "__weakref__"}

\* hasattr(task, key)
hasattr(task, key) ==
  key \in FieldNames \cup Methods \cup ObjectAttributes \cup DOMAIN task

\* the error setattr(task, key, value) raises for a str or bool value,
\* "" when it raises none
setattr_error(key) ==
  IF key \in {"__class__", "__dict__"} THEN "TypeError"
  ELSE IF key = "__weakref__" THEN "AttributeError"
  ELSE ""

\* setattr(task, key, value): a field is overwritten, any other name
\* becomes an attribute of this object and hides what the class has
setattr(task, key, value) ==
  [k \in DOMAIN task \cup {key} |-> IF k = key THEN value ELSE task[k]]

\* -------------------------------------------------------------- storage.py
\* json.dump / json.load of one record: str -> JSON string, None -> null,
\* bool -> true / false; and back.
json_dump(data) ==
  [k \in DOMAIN data |->
     IF k = "completed" THEN (IF data[k] THEN <<"true">> ELSE <<"false">>)
     ELSE IF data[k] = None THEN <<"null">>
     ELSE <<"string", data[k]>>]

json_load(obj) ==
  [k \in DOMAIN obj |->
     IF obj[k] = <<"true">> THEN TRUE
     ELSE IF obj[k] = <<"false">> THEN FALSE
     ELSE IF obj[k] = <<"null">> THEN None
     ELSE obj[k][2]]

\* the list json.dump is given: data = [task.to_dict() for task in tasks]
Data(tasks) == [i \in 1..Len(tasks) |-> json_dump(to_dict(tasks[i]))]

\* ------------------------------------------------- the text of a JSON file
\* open(filename, 'w', encoding='utf-8') and json.dump(data, f, indent=2,
\* ensure_ascii=False): the text json.dump produces, the pieces in which
\* it reaches the file, what a write leaves in the file, and what json.load
\* makes of a text.  A text is a string; no value of the model holds a quote,
\* a backslash or a control character, so the encoder escapes nothing.

\* the byte a write beyond the end of a file leaves before it (0x00, written
\* here as the control character TLA+ has an escape for)
NulByte == "\f"

\* s[a..b], as far as s goes
Sub(s, a, b) == SubSeq(s, a, IF b < Len(s) THEN b ELSE Len(s))

\* c repeated n times
RECURSIVE Rep(_, _)
Rep(c, n) ==
  IF n <= 0 THEN ""
  ELSE IF n = 1 THEN c
  ELSE LET h == Rep(c, n \div 2)
       IN h \o h \o (IF n % 2 = 1 THEN c ELSE "")

\* a description that does not fit the buffers of a file handle
LongText == Rep("q", 8200)

\* strs[lo] \o ... \o strs[hi]
RECURSIVE Join(_, _, _)
Join(strs, lo, hi) ==
  IF lo > hi THEN ""
  ELSE IF lo = hi THEN strs[lo]
  ELSE LET mid == (lo + hi) \div 2
       IN Join(strs, lo, mid) \o Join(strs, mid + 1, hi)

\* the keys of a record in the order to_dict() gives them
to_dict_keys == <<"id", "title", "description", "priority", "due_date",
                  "completed", "created_at">>

\* what json.dump raises TypeError on instead of writing
NotEncodable == "TypeError: Object of type date is not JSON serializable"

\* the chunks json.dump hands to f.write, one after the other, before it
\* returns or raises (json.encoder, _iterencode_list and _iterencode_dict
\* with indent=2)
iterencode(data) ==
  LET RECURSIVE Flat(_, _, _)
      \* seqs[lo] \o ... \o seqs[hi]
      Flat(seqs, lo, hi) ==
        IF lo > hi THEN <<>>
        ELSE IF lo = hi THEN seqs[lo]
        ELSE LET mid == (lo + hi) \div 2
             IN Flat(seqs, lo, mid) \o Flat(seqs, mid + 1, hi)
      RECURSIVE InSomeOrder(_)
      InSomeOrder(S) ==
        IF S = {} THEN <<>>
        ELSE LET x == CHOOSE y \in S : TRUE
             IN <<x>> \o InSomeOrder(S \ {x})
      \* the keys of a record: those of to_dict() in its order, then the
      \* keys Task does not have
      Keys(rec) ==
        SelectSeq(to_dict_keys, LAMBDA key : key \in DOMAIN rec)
        \o InSomeOrder(DOMAIN rec
                       \ {to_dict_keys[i] : i \in 1..Len(to_dict_keys)})
      \* the text of one JSON value
      json_text(jv) ==
        CASE jv[1] = "null" -> "null"
          [] jv[1] = "true" -> "true"
          [] jv[1] = "false" -> "false"
          [] jv[1] = "string" ->
               IF jv[2] = DateObject THEN NotEncodable
               ELSE "\"" \o jv[2] \o "\""
      \* the chunks of the k-th key of a record and its value
      item_chunks(rec, keys, k) ==
        (IF k = 1 THEN <<>> ELSE <<",\n    ">>)
        \o <<"\"" \o keys[k] \o "\"", ": ", json_text(rec[keys[k]])>>
      keyed_chunks(rec, keys) ==
        IF Len(keys) = 0 THEN <<"{}">>
        ELSE <<"{", "\n    ">>
             \o Flat([k \in 1..Len(keys) |-> item_chunks(rec, keys, k)],
                     1, Len(keys))
             \o <<"\n  ", "}">>
      dict_chunks(rec) == keyed_chunks(rec, Keys(rec))
      list_chunks ==
        IF Len(data) = 0 THEN <<"[]">>
        ELSE Flat([i \in 1..Len(data) |->
                     <<IF i = 1 THEN "[\n  " ELSE ",\n  ">>
                     \o dict_chunks(data[i])],
                  1, Len(data))
             \o <<"\n", "]">>
      \* the chunks before the first of those at `bad`
      before_all(chunks, bad) ==
        IF bad = {} THEN chunks
        ELSE SubSeq(chunks, 1,
                    Cardinality({k \in 1..Len(chunks) : \A b \in bad : k < b}))
      \* json.dump raises at the value it cannot encode
      written(chunks) ==
        before_all(chunks,
                   {k \in 1..Len(chunks) : chunks[k] = NotEncodable})
  IN written(list_chunks)

\* json.dumps(data, indent=2, ensure_ascii=False), up to where it raises
dumps(data) ==
  LET joined(chunks) == Join(chunks, 1, Len(chunks))
  IN joined(iterencode(data))

\* The text reaches the file through two buffers.  f.write(chunk) adds the
\* chunk to what TextIOWrapper holds back and passes that on when one more
\* chunk would take it over ChunkSize, or when it has reached ChunkSize; the
\* BufferedWriter under it keeps up to BufferSize bytes and writes to the
\* file what does not fit.  The close passes on and writes what is left.
ChunkSize == 8192     \* TextIOWrapper._CHUNK_SIZE
BufferSize == 4096    \* the buffer open() gives the file (st_blksize)

\* the lengths of the writes by which the chunks reach the file
raw_writes(chunks) ==
  LET RECURSIVE Ends(_, _, _)
      \* `left` and the offsets at which chunks[lo..hi] end after it
      ends_after(left, lo, hi) == left \o Ends(lo, hi, left[Len(left)])
      \* the offsets at which chunks[lo..hi] end, the first starting at base
      Ends(lo, hi, base) ==
        IF lo > hi THEN <<>>
        ELSE IF lo = hi THEN <<base + Len(chunks[lo])>>
        ELSE ends_after(Ends(lo, (lo + hi) \div 2, base),
                        (lo + hi) \div 2 + 1, hi)
      \* where a flush that starts at `from` ends: after the last of the
      \* `within` chunks that stay within ChunkSize, or after the one chunk
      \* that follows the `before` chunks passed on
      flush_end(ends, before, within) ==
        IF within > before THEN ends[within] ELSE ends[before + 1]
      RECURSIVE text_flushes(_, _)
      flush(ends, from, to) == <<to - from>> \o text_flushes(ends, to)
      \* the lengths TextIOWrapper passes on from offset `from` on: as many
      \* whole chunks as stay within ChunkSize, and a chunk that is longer
      \* than that by itself
      text_flushes(ends, from) ==
        IF \A k \in 1..Len(ends) : ends[k] <= from THEN <<>>
        ELSE flush(ends, from,
                   flush_end(ends,
                             Cardinality({k \in 1..Len(ends) :
                                            ends[k] <= from}),
                             Cardinality({k \in 1..Len(ends) :
                                            ends[k] <= from + ChunkSize})))
      RECURSIVE buffered_writes(_, _, _)
      \* BufferedWriter.write for each length passed on, then the flush of
      \* the close
      buffered_writes(flushes, k, buffered) ==
        IF k > Len(flushes)
          THEN (IF buffered > 0 THEN <<buffered>> ELSE <<>>)
        ELSE IF flushes[k] <= BufferSize - buffered
          THEN buffered_writes(flushes, k + 1, buffered + flushes[k])
        ELSE (IF buffered > 0 THEN <<buffered>> ELSE <<>>)
             \o (IF flushes[k] > BufferSize
                   THEN <<flushes[k]>> \o buffered_writes(flushes, k + 1, 0)
                   ELSE buffered_writes(flushes, k + 1, flushes[k]))
  IN buffered_writes(text_flushes(Ends(1, Len(chunks), 0), 0), 1, 0)

\* write(fd, data) at the position `offset` of the handle: the text of the
\* file after it
write_at(text, offset, data) ==
  Sub(text, 1, offset)
  \o Rep(NulByte, offset - Len(text))
  \o data
  \o SubSeq(text, offset + Len(data) + 1, Len(text))

\* json.loads(s) for the texts that pieces of json.dump's texts can make: a
\* list of objects whose values are strings, null, true or false
json_loads(s) ==
  LET At(i) == IF i >= 1 /\ i <= Len(s) THEN SubSeq(s, i, i) ELSE ""
      \* what the parser skips between tokens, and what it does not accept
      \* inside a string
      Whitespace == {" ", "\n", "\r", "\t"}
      Control == {"\n", "\r", "\t", NulByte}
      RECURSIVE skip_ws(_)
      skip_ws(i) == IF At(i) \in Whitespace THEN skip_ws(i + 1) ELSE i
      RECURSIVE run_from(_, _)
      \* a number of characters from i on that are all the character at i,
      \* n being such a number: twice n while the next n are the same again
      run_from(i, n) ==
        IF i + 2 * n - 1 <= Len(s)
           /\ SubSeq(s, i, i + n - 1) = SubSeq(s, i + n, i + 2 * n - 1)
          THEN run_from(i, 2 * n)
          ELSE n
      RECURSIVE string_end(_)
      \* the same, c being the character at j: characters that are not the
      \* end of the string are passed over, a run of them at a time
      string_on(j, c) ==
        IF c = "\"" THEN j
        ELSE IF c = "" \/ c \in Control \/ c = "\\" THEN 0
        ELSE string_end(j + (IF At(j + 1) = c THEN run_from(j, 1) ELSE 1))
      \* the position of the quote that ends the string whose text goes on
      \* at j, 0 if there is none or the string holds what JSON does not allow
      string_end(j) == string_on(j, At(j))
      NoParse == [ok |-> FALSE]
      \* the string that starts at i and ends with the quote at e
      string_value(i, e) ==
        IF e = 0 THEN NoParse
        ELSE [ok |-> TRUE, val |-> <<"string", SubSeq(s, i + 1, e - 1)>>,
              next |-> e + 1]
      \* a string, null, true or false at i
      parse_value(i) ==
        IF At(i) = "\"" THEN string_value(i, string_end(i + 1))
        ELSE IF Sub(s, i, i + 3) = "null"
          THEN [ok |-> TRUE, val |-> <<"null">>, next |-> i + 4]
        ELSE IF Sub(s, i, i + 3) = "true"
          THEN [ok |-> TRUE, val |-> <<"true">>, next |-> i + 4]
        ELSE IF Sub(s, i, i + 4) = "false"
          THEN [ok |-> TRUE, val |-> <<"false">>, next |-> i + 5]
        ELSE NoParse
      \* "key": value at i, and the position of what follows the value
      pair_value(key, value) ==
        IF ~value.ok THEN NoParse
        ELSE [ok |-> TRUE, key |-> key.val[2], val |-> value.val,
              next |-> skip_ws(value.next)]
      pair_colon(key, colon) ==
        IF At(colon) # ":" THEN NoParse
        ELSE pair_value(key, parse_value(skip_ws(colon + 1)))
      pair_key(key) ==
        IF ~key.ok \/ key.val[1] # "string" THEN NoParse
        ELSE pair_colon(key, skip_ws(key.next))
      parse_pair(i) == pair_key(parse_value(i))
      \* a key given twice keeps its last value
      with_pair(pair, rest) ==
        IF ~rest.ok THEN NoParse
        ELSE [ok |-> TRUE, rec |-> rest.rec @@ (pair.key :> pair.val),
              next |-> rest.next]
      RECURSIVE parse_pairs(_)
      \* pairs from i up to the closing brace: after a pair comes the brace,
      \* or a comma and pairs
      parse_pairs(i) ==
        LET pair == parse_pair(i)
        IN IF ~pair.ok THEN NoParse
           ELSE IF At(pair.next) = "}"
             THEN [ok |-> TRUE, rec |-> (pair.key :> pair.val),
                   next |-> pair.next + 1]
           ELSE IF At(pair.next) # "," THEN NoParse
           ELSE with_pair(pair, parse_pairs(skip_ws(pair.next + 1)))
      object_from(first) ==
        IF At(first) = "}"
          THEN [ok |-> TRUE, rec |-> <<>>, next |-> skip_ws(first + 1)]
          ELSE parse_pairs(first)
      \* an object at i, and the position of what follows it
      object_next(obj) ==
        IF ~obj.ok THEN NoParse
        ELSE [ok |-> TRUE, rec |-> obj.rec, next |-> skip_ws(obj.next)]
      parse_object(i) ==
        IF At(i) # "{" THEN NoParse
        ELSE object_next(object_from(skip_ws(i + 1)))
      with_object(obj, rest) ==
        IF ~rest.ok THEN NoParse
        ELSE [ok |-> TRUE, data |-> <<obj.rec>> \o rest.data,
              next |-> rest.next]
      RECURSIVE parse_objects(_)
      \* objects from i up to the closing bracket: after an object comes the
      \* bracket, or a comma and objects
      parse_objects(i) ==
        LET obj == parse_object(i)
        IN IF ~obj.ok THEN NoParse
           ELSE IF At(obj.next) = "]"
             THEN [ok |-> TRUE, data |-> <<obj.rec>>, next |-> obj.next + 1]
           ELSE IF At(obj.next) # "," THEN NoParse
           ELSE with_object(obj, parse_objects(skip_ws(obj.next + 1)))
      list_from(first) ==
        IF At(first) = "]"
          THEN [ok |-> TRUE, data |-> <<>>, next |-> first + 1]
          ELSE parse_objects(first)
      \* nothing but whitespace follows the list
      whole(list) ==
        IF ~list.ok \/ skip_ws(list.next) # Len(s) + 1 THEN NoParse
        ELSE [ok |-> TRUE, data |-> list.data]
      list_at(open) ==
        IF At(open) # "[" THEN NoParse
        ELSE whole(list_from(skip_ws(open + 1)))
  IN list_at(skip_ws(1))

\* the text of the file f
Text(f) == f.text

\* the file that holds the text, given what json.loads makes of the text
FileOf(text, parsed) ==
  [exists |-> TRUE, garbled |-> ~parsed.ok,
   content |-> IF parsed.ok THEN parsed.data ELSE <<>>, text |-> text]

File(text) == FileOf(text, json_loads(text))

\* json.dump has a form for every value of every record
Serializable(tasks) == \A i \in 1..Len(tasks) : tasks[i].due_date # DateObject

\* JSONStorage.save: the file after open(filename, 'w'), json.dump and the
\* close; where json.dump raises TypeError the text is cut short after the
\* colon of the key, which json.load rejects
JSONStorage_save(tasks) ==
  [exists |-> TRUE, garbled |-> ~Serializable(tasks),
   content |-> IF Serializable(tasks) THEN Data(tasks) ELSE <<>>,
   text |-> dumps(Data(tasks))]

\* variant: the file is opened without being emptied
open_w_Keeping(f) == f

\* open(filename, 'w'): the file is there and empty
open_w(f) ==
  [exists |-> TRUE, garbled |-> TRUE, content |-> <<>>, text |-> ""]

\* the writes by which json.dump(data, f, indent=2, ensure_ascii=False) and
\* the close of f bring the text to the file: its pieces, in order
dump_writes(tasks) ==
  LET RECURSIVE Pieces(_, _, _, _)
      \* the text from offset `from` on, in pieces of lens[k], lens[k + 1]..
      Pieces(text, lens, k, from) ==
        IF k > Len(lens) THEN <<>>
        ELSE <<SubSeq(text, from + 1, from + lens[k])>>
             \o Pieces(text, lens, k + 1, from + lens[k])
      pieces(chunks) ==
        Pieces(Join(chunks, 1, Len(chunks)), raw_writes(chunks), 1, 0)
  IN pieces(iterencode(Data(tasks)))

\* the write that a handle makes next when `at` characters of the text have
\* gone to the file through it, and whether it is the last one
next_write(tasks, at) ==
  LET RECURSIVE from(_, _, _)
      \* the k-th write begins where `sofar` characters are written
      from(writes, k, sofar) ==
        IF sofar = at
          THEN [data |-> writes[k], last |-> k = Len(writes)]
          ELSE from(writes, k + 1, sofar + Len(writes[k]))
  IN from(dump_writes(tasks), 1, 0)

\* JSONStorage.save(tasks) on the file f, run to its end: the file it leaves
\* and the error it raises ("" for none).  task.to_dict() raising TypeError
\* comes before the open and leaves f; json.dump raising TypeError comes
\* after it and leaves a text cut short.  Neither is an IOError, so neither
\* is caught.
JSONStorage_save_call(f, tasks) ==
  IF \E i \in 1..Len(tasks) : ~to_dict_callable(tasks[i])
    THEN [file |-> f, err |-> "TypeError"]
  ELSE [file |-> JSONStorage_save(tasks),
        err |-> IF Serializable(tasks) THEN "" ELSE "TypeError"]

\* the records of f for which from_dict draws from a default factory
Defaulted(f) ==
  IF ~f.exists \/ f.garbled THEN {}
  ELSE {i \in 1..Len(f.content) :
          ~({"id", "created_at"} \subseteq DOMAIN f.content[i])}

\* JSONStorage.load: a missing file is an empty list; a text json.load
\* rejects raises JSONDecodeError, which is caught and raised again as an
\* IOError naming the file; the error of the first record Task.from_dict
\* rejects (TypeError, ValueError) is not caught by the except clause
\* (IOError, json.JSONDecodeError) and reaches the caller as it is.
\* `made` is the number of records for which a default factory has been
\* drawn from before this load.
JSONStorage_load(f, made) ==
  IF ~f.exists THEN [ok |-> TRUE, tasks |-> <<>>]
  ELSE IF f.garbled
    THEN [ok |-> FALSE, err |-> "IOError", names_file |-> TRUE]
  ELSE LET data == [i \in 1..Len(f.content) |-> json_load(f.content[i])]
           nth(i) == made + Cardinality({j \in Defaulted(f) : j <= i})
           items == [i \in 1..Len(data) |->
                       from_dict(data[i], RegenId(nth(i)), RegenTime(nth(i)))]
           bad == {i \in 1..Len(data) : ~items[i].ok}
       IN IF bad # {}
            THEN [ok |-> FALSE,
                  err |-> items[CHOOSE i \in bad : \A j \in bad : i <= j].err,
                  names_file |-> FALSE]
            ELSE [ok |-> TRUE,
                  tasks |-> [i \in 1..Len(data) |-> items[i].task]]

\* InMemoryStorage.save / load: tasks.copy() is a shallow copy, the list of
\* references is copied and the Task objects are shared.
InMemoryStorage_save(tasks) == tasks

InMemoryStorage_load(stored) == stored

\* -------------------------------------------------------------- service.py
\* A service method works on the heap and on the list `tasks` of references
\* that storage.load() returned; it yields the heap and the list it ends
\* with, its return value, and whether it called storage.save(tasks).
Deref(heap, tasks) == [i \in 1..Len(tasks) |-> heap[tasks[i]]]

Outcome(heap, tasks, ret, save) ==
  [heap |-> heap, tasks |-> tasks, ret |-> ret, save |-> save]

\* variant: a duplicate-id check before the append
add_task_DupCheck(heap, tasks, task) ==
  IF \E i \in 1..Len(tasks) : heap[tasks[i]].id = heap[task].id
    THEN Outcome(heap, tasks, "None", FALSE)
    ELSE Outcome(heap, Append(tasks, task), "None", TRUE)

add_task(heap, tasks, task) ==
  Outcome(heap, Append(tasks, task), "None", TRUE)

\* the for-loop of update_task / get_task_by_id: first position whose
\* task has the id, 0 when there is none
FirstWithId(heap, tasks, task_id) ==
  IF \E i \in 1..Len(tasks) : heap[tasks[i]].id = task_id
    THEN CHOOSE i \in 1..Len(tasks) :
           /\ heap[tasks[i]].id = task_id
           /\ \A j \in 1..(i - 1) : heap[tasks[j]].id # task_id
    ELSE 0

\* one keyword argument of update_task(task_id, **updates); `updates` is
\* the sequence of them in the order of the call, which is the order
\* updates.items() gives
Kw(key, value) == [key |-> key, value |-> value]

\* for key, value in updates.items(): if hasattr(task, key): setattr(...)
\* The loop ends at the first setattr that raises; what was set before stays.
RECURSIVE SetAttrs(_, _)
SetAttrs(task, updates) ==
  IF updates = <<>> THEN [task |-> task, err |-> ""]
  ELSE LET key == Head(updates).key
           value == Head(updates).value
       IN IF ~hasattr(task, key) THEN SetAttrs(task, Tail(updates))
          ELSE IF setattr_error(key) # ""
            THEN [task |-> task, err |-> setattr_error(key)]
          ELSE SetAttrs(setattr(task, key, value), Tail(updates))

\* def update_task(self, task_id: str, **updates): a keyword argument named
\* like one of the parameters is not collected into updates, the call
\* raises TypeError (got multiple values for argument) and the body of the
\* method does not run
Binds(updates) ==
  \A u \in 1..Len(updates) : updates[u].key \notin {"self", "task_id"}

update_task(heap, tasks, task_id, updates) ==
  LET i == FirstWithId(heap, tasks, task_id)
  IN IF ~Binds(updates) THEN Outcome(heap, tasks, "TypeError", FALSE)
     ELSE IF i = 0 THEN Outcome(heap, tasks, "False", FALSE)
     ELSE LET set == SetAttrs(heap[tasks[i]], updates)
              after == [heap EXCEPT ![tasks[i]] = set.task]
          IN IF set.err # "" THEN Outcome(after, tasks, set.err, FALSE)
             ELSE Outcome(after, tasks, "True", TRUE)

\* [t for t in tasks if t.id != task_id]
RECURSIVE WithoutId(_, _, _)
WithoutId(heap, tasks, task_id) ==
  IF tasks = <<>> THEN <<>>
  ELSE IF heap[Head(tasks)].id # task_id
         THEN <<Head(tasks)>> \o WithoutId(heap, Tail(tasks), task_id)
         ELSE WithoutId(heap, Tail(tasks), task_id)

\* variant: only the first task with the id is removed
delete_task_FirstOnly(heap, tasks, task_id) ==
  LET i == FirstWithId(heap, tasks, task_id)
  IN IF i = 0 THEN Outcome(heap, tasks, "False", FALSE)
     ELSE Outcome(heap, SubSeq(tasks, 1, i - 1) \o
                        SubSeq(tasks, i + 1, Len(tasks)), "True", TRUE)

delete_task(heap, tasks, task_id) ==
  LET kept == WithoutId(heap, tasks, task_id)
  IN IF Len(kept) < Len(tasks) THEN Outcome(heap, kept, "True", TRUE)
     ELSE Outcome(heap, tasks, "False", FALSE)

\* tasks.pop(index), index 0-based and already known to be in range
Pop(tasks, index) ==
  SubSeq(tasks, 1, index) \o SubSeq(tasks, index + 2, Len(tasks))

\* variant: the guard lacks `0 <=`, so that pop(-1) removes the last element
delete_task_by_index_NoLowerBound(heap, tasks, index) ==
  IF index < Len(tasks)
    THEN Outcome(heap,
                 Pop(tasks, IF index < 0 THEN Len(tasks) + index ELSE index),
                 "True", TRUE)
    ELSE Outcome(heap, tasks, "False", FALSE)

delete_task_by_index(heap, tasks, index) ==
  IF 0 <= index /\ index < Len(tasks)
    THEN Outcome(heap, Pop(tasks, index), "True", TRUE)
    ELSE Outcome(heap, tasks, "False", FALSE)

complete_task(heap, tasks, task_id) ==
  update_task(heap, tasks, task_id, <<Kw("completed", TRUE)>>)

\* get_task_by_index: the reference at the index, 0 (None) when out of range
get_task_by_index(heap, tasks, index) ==
  IF 0 <= index /\ index < Len(tasks) THEN tasks[index + 1] ELSE 0

\* get_task_by_index and complete_task each load the collection: `tasks`
\* is what the first load() returned and `again` what the second returns.
complete_task_by_index(heap, tasks, again, index) ==
  LET task == get_task_by_index(heap, tasks, index)
  IN IF task # 0 THEN complete_task(heap, again, heap[task].id)
     ELSE Outcome(heap, tasks, "False", FALSE)

\* the storage.load() calls complete_task_by_index makes
complete_task_by_index_loads(heap, tasks, index) ==
  IF get_task_by_index(heap, tasks, index) # 0 THEN 2 ELSE 1

\* get_statistics over the loaded task values
get_statistics(tasks) ==
  LET completed == Cardinality({i \in 1..Len(tasks) : tasks[i].completed})
  IN [total |-> Len(tasks),
      completed |-> completed,
      pending |-> Len(tasks) - completed,
      by_priority |->
        [p \in {"low", "medium", "high"} |->
           Cardinality({i \in 1..Len(tasks) : tasks[i].priority = p})]]

\* ------------------------------------------------------------ the run
VARIABLES
  objsM,     \* heap of the in-memory run: the Task objects the caller made
  memTasks,  \* InMemoryStorage._tasks: a list of references into objsM
  objsJ,     \* heap of the file-backed run: the Task objects the caller made
  file,      \* the JSONStorage file: whether it exists, and what it holds
  ops,       \* service calls made so far
  last,      \* the last call: its arguments and what each run returned
  preM,      \* get_all_tasks() of the in-memory run before the last call
  preJ,      \* storage.load() of the file-backed run before the last call
  tkw,       \* construction alone: the keyword arguments of a Task(...) call
  tres,      \* construction alone: what that call produced
  stores,    \* two services: the storage backends and each service's storage
  held,      \* storage alone: the list the caller of save() / load() holds
  pc,        \* position of a save in progress / of each process
  local,     \* the local variable `tasks` of each process inside add_task
  made,      \* records for which from_dict has drawn from a default factory
  pos,       \* the position in the file of each handle a save has open
  rd         \* what each process has read of the file in a load() under way

vars == <<objsM, memTasks, objsJ, file, ops, last, preM, preJ, tkw, tres,
          stores, held, pc, local, made, pos, rd>>

\* the variables the single-service run leaves alone
otherVars == <<stores, held, pc, local, pos, rd>>
Idle == <<>>

NotConstructed == [ok |-> FALSE, err |-> "not constructed"]

Absent == "absent"          \* a keyword argument that is not passed

\* the keyword arguments of one Task(...) call
Kwargs(title, priority, id) ==
  [k \in {"title"} \cup (IF priority = Absent THEN {} ELSE {"priority"})
                   \cup (IF id = Absent THEN {} ELSE {"id"}) |->
     CASE k = "title" -> title
       [] k = "priority" -> priority
       [] k = "id" -> id]

\* the Task(...) calls of a run: defaults, a priority with an explicit id,
\* and a priority outside the enumeration
TaskArgs == { Kwargs("a", Absent, Absent), Kwargs("a", "high", "x"),
              Kwargs("a", "urgent", Absent) }
IdArgs == {"u1", "x"}
IndexArgs == -1..(MaxTasks - 1)
UpdateSets ==
  { <<Kw("title", "b"), Kw("color", "red"), Kw("due_date", "d1")>>,
    <<Kw("priority", "urgent")>>,
    <<Kw("id", "x"), Kw("created_at", "t9")>>,
    <<Kw("to_dict", "x")>>,
    <<Kw("title", "b"), Kw("__class__", "x")>>,
    <<Kw("title", "b"), Kw("task_id", "zz")>> }

NoCall == [op |-> "none", task |-> 0, task_id |-> "", index |-> 0,
           updates |-> <<>>, kwargs |-> <<>>]

Init ==
  /\ objsM = <<>>
  /\ memTasks = <<>>
  /\ objsJ = <<>>
  /\ file = NoFile
  /\ ops = 0
  /\ last = [call |-> NoCall, retM |-> "None", retJ |-> "None",
             saveM |-> FALSE, saveJ |-> FALSE]
  /\ preM = <<>>
  /\ preJ = [ok |-> TRUE, tasks |-> <<>>]
  /\ tkw = [title |-> "a"]
  /\ tres = NotConstructed
  /\ stores = Idle /\ held = Idle /\ pc = Idle /\ local = Idle /\ pos = Idle /\ rd = Idle
  /\ made = 0

\* the service method a call names, on a loaded collection; `again` is what
\* one more storage.load() returns
Service(c, heap, tasks, again) ==
  CASE c.op = "add_task" -> add_task(heap, tasks, c.task)
    [] c.op = "update_task" -> update_task(heap, tasks, c.task_id, c.updates)
    [] c.op = "delete_task" -> delete_task(heap, tasks, c.task_id)
    [] c.op = "delete_task_by_index" ->
         delete_task_by_index(heap, tasks, c.index)
    [] c.op = "complete_task" -> complete_task(heap, tasks, c.task_id)
    [] c.op = "complete_task_by_index" ->
         complete_task_by_index(heap, tasks, again, c.index)

\* the storage.load() calls the method makes
Loads(c, heap, tasks) ==
  IF c.op = "complete_task_by_index"
    THEN complete_task_by_index_loads(heap, tasks, c.index)
  ELSE IF c.op = "update_task" /\ ~Binds(c.updates) THEN 0
  ELSE 1

\* what get_all_tasks() returns in each run: the task values, or the error
GetAllM == [ok |-> TRUE, tasks |-> Deref(objsM, InMemoryStorage_load(memTasks))]
GetAllJ == JSONStorage_load(file, made)

\* one TaskService call, made on both services
DoCall(c) ==
  /\ ops < MaxOps
  /\ UNCHANGED <<tkw, tres>>
  /\ UNCHANGED otherVars
  /\ ops' = ops + 1
  /\ preM' = GetAllM.tasks
  /\ preJ' = GetAllJ
  /\ LET stored == InMemoryStorage_load(memTasks)
         rm == Service(c, objsM, stored, InMemoryStorage_load(memTasks))
         \* the load that preJ records draws d times, the loads of the
         \* method draw after it
         d  == Cardinality(Defaulted(file))
         ld == JSONStorage_load(file, made + d)
         l2 == JSONStorage_load(file, made + 2 * d)
         n  == Len(objsJ)
         m  == Len(ld.tasks)
         \* load() builds fresh Task objects, placed after the caller's
         heap  == objsJ \o ld.tasks \o l2.tasks
         tasks == [i \in 1..m |-> n + i]
         rj == Service(c, heap, tasks, [i \in 1..m |-> n + m + i])
         sv == JSONStorage_save_call(file, Deref(rj.heap, rj.tasks))
     IN /\ objsM' = rm.heap
        /\ memTasks' = IF rm.save THEN InMemoryStorage_save(rm.tasks)
                       ELSE memTasks
        /\ IF Loads(c, objsJ, <<>>) = 0
             \* the call raises before it loads
             THEN /\ UNCHANGED <<objsJ, file>>
                  /\ made' = made + d
                  /\ last' = [call |-> c, retM |-> rm.ret,
                              retJ |-> Service(c, objsJ, <<>>, <<>>).ret,
                              saveM |-> rm.save, saveJ |-> FALSE]
           ELSE IF ld.ok
             THEN /\ objsJ' = SubSeq(rj.heap, 1, n)
                  /\ file' = IF rj.save THEN sv.file ELSE file
                  /\ made' = made + d + d * Loads(c, heap, tasks)
                  /\ last' = [call |-> c, retM |-> rm.ret,
                              retJ |-> IF rj.save /\ sv.err # ""
                                         THEN sv.err ELSE rj.ret,
                              saveM |-> rm.save, saveJ |-> rj.save]
             ELSE /\ UNCHANGED <<objsJ, file>>
                  /\ made' = made + 2 * d
                  /\ last' = [call |-> c, retM |-> rm.ret, retJ |-> ld.err,
                              saveM |-> rm.save, saveJ |-> FALSE]

\* Task(title, priority=..., id=...): both runs construct the same task
Construct(kwargs) ==
  /\ Len(objsM) < MaxObjs
  /\ LET n == Len(objsM)
         r == Task(kwargs, Uuids[n + 1], Times[n + 1])
     IN /\ objsM' = IF r.ok THEN Append(objsM, r.task) ELSE objsM
        /\ objsJ' = IF r.ok THEN Append(objsJ, r.task) ELSE objsJ
        /\ last' = [call |-> [NoCall EXCEPT !.op = "Task", !.kwargs = kwargs],
                    retM |-> IF r.ok THEN "Task" ELSE r.err,
                    retJ |-> IF r.ok THEN "Task" ELSE r.err,
                    saveM |-> FALSE, saveJ |-> FALSE]
  /\ preM' = GetAllM.tasks
  /\ preJ' = GetAllJ
  /\ made' = made + Cardinality(Defaulted(file))
  /\ UNCHANGED <<memTasks, file, ops, tkw, tres>>
  /\ UNCHANGED otherVars

AddTask(o) ==
  /\ Len(memTasks) < MaxTasks
  /\ Len(file.content) < MaxTasks
  /\ DoCall([NoCall EXCEPT !.op = "add_task", !.task = o])

UpdateTask(task_id, updates) ==
  DoCall([NoCall EXCEPT !.op = "update_task", !.task_id = task_id,
                        !.updates = updates])

DeleteTask(task_id) ==
  DoCall([NoCall EXCEPT !.op = "delete_task", !.task_id = task_id])

DeleteTaskByIndex(index) ==
  DoCall([NoCall EXCEPT !.op = "delete_task_by_index", !.index = index])

CompleteTask(task_id) ==
  DoCall([NoCall EXCEPT !.op = "complete_task", !.task_id = task_id])

CompleteTaskByIndex(index) ==
  DoCall([NoCall EXCEPT !.op = "complete_task_by_index", !.index = index])

Next ==
  \/ \E kwargs \in TaskArgs : Construct(kwargs)
  \/ \E o \in 1..Len(objsM) : AddTask(o)
  \/ \E task_id \in IdArgs, u \in UpdateSets : UpdateTask(task_id, u)
  \/ \E task_id \in IdArgs : DeleteTask(task_id)
  \/ \E index \in IndexArgs : DeleteTaskByIndex(index)
  \/ \E task_id \in IdArgs : CompleteTask(task_id)
  \/ \E index \in IndexArgs : CompleteTaskByIndex(index)

Spec == Init /\ [][Next]_vars

\* ------------------------------------------------- Task construction alone
\* Every combination of keyword arguments over small value sets.
TitleArgs == {"a", "B"}
PriorityArgs == {Absent, "low", "medium", "high", "urgent", "High", ""}
CompletedArgs == {Absent, "True"}      \* "True": completed=True is passed
DueDateArgs == {Absent, "d1"}
IdKwargs == {Absent, "x"}

FullKwargs(title, priority, id, completed, due_date) ==
  [k \in {"title"} \cup (IF priority = Absent THEN {} ELSE {"priority"})
                   \cup (IF id = Absent THEN {} ELSE {"id"})
                   \cup (IF completed = Absent THEN {} ELSE {"completed"})
                   \cup (IF due_date = Absent THEN {} ELSE {"due_date"}) |->
     CASE k = "title" -> title
       [] k = "priority" -> priority
       [] k = "id" -> id
       [] k = "completed" -> TRUE
       [] k = "due_date" -> due_date]

InitTask ==
  /\ objsM = <<>> /\ memTasks = <<>> /\ objsJ = <<>> /\ file = NoFile
  /\ ops = 0
  /\ last = [call |-> NoCall, retM |-> "None", retJ |-> "None",
             saveM |-> FALSE, saveJ |-> FALSE]
  /\ preM = <<>>
  /\ preJ = [ok |-> TRUE, tasks |-> <<>>]
  /\ tkw \in { FullKwargs(t, p, i, c, d) :
                 t \in TitleArgs, p \in PriorityArgs, i \in IdKwargs,
                 c \in CompletedArgs, d \in DueDateArgs }
  /\ tres = NotConstructed
  /\ stores = Idle /\ held = Idle /\ pc = Idle /\ local = Idle /\ pos = Idle /\ rd = Idle
  /\ made = 0

\* Task(**tkw)
ConstructTask ==
  /\ tres = NotConstructed
  /\ tres' = Task(tkw, Uuids[1], Times[1])
  /\ UNCHANGED <<objsM, memTasks, objsJ, file, ops, last, preM, preJ, tkw>>
  /\ UNCHANGED otherVars
  /\ UNCHANGED made

NextTask == ConstructTask

SpecTask == InitTask /\ [][NextTask]_vars

\* ==================================================================claims
\* The last call, and the collection each run holds after it.
Op == last.call.op
PostM == GetAllM.tasks
InRange(index, n) == 0 <= index /\ index < n
HasId(tasks, task_id) == \E j \in 1..Len(tasks) : tasks[j].id = task_id
StatsM == get_statistics(GetAllM.tasks)
\* the fields of a task, which is what Task.__eq__ compares
Fields(t) == [k \in FieldNames |-> t[k]]

\* C1: the same sequence of service calls gives, on InMemoryStorage and on
\* JSONStorage, the same return values and the same get_all_tasks() and
\* get_statistics() after every call.
C1_Interchangeable ==
  /\ last.retM = last.retJ
  /\ GetAllJ.ok
  /\ GetAllJ.tasks = [j \in 1..Len(GetAllM.tasks) |-> Fields(GetAllM.tasks[j])]
  /\ get_statistics(GetAllJ.tasks) = StatsM

\* complete_task_by_index(index) as the claim describes it, from the
\* collection before (pre) to the collection after (post)
CompletesExactly(pre, post, ret, index) ==
  IF InRange(index, Len(pre))
    THEN /\ ret = "True"
         /\ Len(post) = Len(pre)
         /\ post[index + 1].completed
         /\ \A j \in 1..Len(pre) : j # index + 1 => post[j] = pre[j]
    ELSE ret = "False" /\ post = pre

\* C2: complete_task_by_index(i) with i in range returns True, the task at
\* position i is completed and every task at another position is unchanged,
\* also when several tasks share an id; out of range it returns False and
\* the collection is unchanged.
C2_CompleteByIndexFrame ==
  Op = "complete_task_by_index" =>
    /\ CompletesExactly(preM, PostM, last.retM, last.call.index)
    /\ preJ.ok => /\ GetAllJ.ok
                  /\ CompletesExactly(preJ.tasks, GetAllJ.tasks, last.retJ,
                                      last.call.index)

SameIdentity(pre, post) ==
  /\ Len(post) = Len(pre)
  /\ \A j \in 1..Len(pre) : /\ post[j].id = pre[j].id
                            /\ post[j].created_at = pre[j].created_at

\* C3: update_task never changes the id or the created_at of any task,
\* whatever the update set names.
C3_UpdateKeepsIdentity ==
  Op = "update_task" =>
    /\ SameIdentity(preM, PostM)
    /\ (preJ.ok /\ GetAllJ.ok) => SameIdentity(preJ.tasks, GetAllJ.tasks)

\* delete_task_by_index(index) as the claim describes it
RemovesPosition(pre, post, ret, save, index) ==
  IF InRange(index, Len(pre))
    THEN /\ ret = "True"
         /\ save
         /\ Len(post) = Len(pre) - 1
         /\ \A j \in 1..index : post[j] = pre[j]
         /\ \A j \in (index + 1)..Len(post) : post[j] = pre[j + 1]
    ELSE ret = "False" /\ ~save /\ post = pre

\* C4: delete_task_by_index(i) with 0 <= i < len returns True and removes
\* exactly the element at position i (the elements before keep their
\* position, the elements after move down by one); for an empty collection
\* or an i outside the range, negative i included, it returns False and the
\* stored collection is unchanged.  Stated of each backend for every
\* collection its load() returns.
C4_DeleteByIndex ==
  Op = "delete_task_by_index" =>
    /\ RemovesPosition(preM, PostM, last.retM, last.saveM, last.call.index)
    /\ preJ.ok => /\ GetAllJ.ok
                  /\ RemovesPosition(preJ.tasks, GetAllJ.tasks, last.retJ,
                                     last.saveJ, last.call.index)

C4_Witness ==
  /\ Op = "delete_task_by_index"
  /\ last.call.index = 0
  /\ Len(preM) = 2 /\ preM[1] # preM[2]
  /\ preJ.ok /\ Len(preJ.tasks) = 2
  /\ last.retM = "True" /\ last.retJ = "True"

\* the keyword arguments update_task / complete_task applied
AppliedUpdates ==
  IF Op = "complete_task" THEN <<Kw("completed", TRUE)>>
  ELSE last.call.updates

\* update_task / complete_task as the claim describes them
ReportsNotFound(pre, post, ret, save, task_id, updates) ==
  IF HasId(pre, task_id)
    THEN /\ ret = "True"
         /\ post.ok
         /\ Len(post.tasks) = Len(pre)
         /\ \E j \in 1..Len(pre) :
              /\ pre[j].id = task_id
              /\ \A u \in 1..Len(updates) :
                   updates[u].key \in FieldNames =>
                     post.tasks[j][updates[u].key] = updates[u].value
    ELSE ret = "False" /\ ~save /\ post.ok /\ post.tasks = pre

\* C5: update_task and complete_task return False, do not save and leave
\* the collection unchanged when no task has the id; when some task has it
\* they return True and a subsequent load() returns the modified collection.
C5_UpdateReportsNotFound ==
  Op \in {"update_task", "complete_task"} =>
    /\ ReportsNotFound(preM, GetAllM, last.retM, last.saveM,
                       last.call.task_id, AppliedUpdates)
    /\ preJ.ok => ReportsNotFound(preJ.tasks, GetAllJ, last.retJ, last.saveJ,
                                  last.call.task_id, AppliedUpdates)

\* delete_task(task_id) as the claim describes it: post is pre restricted
\* to the positions whose task has another id, in the same order
RemovesAllWithId(pre, post, ret, save, task_id) ==
  LET keep == {j \in 1..Len(pre) : pre[j].id # task_id}
      rank(j) == Cardinality({k \in keep : k <= j})
  IN /\ Len(post) = Cardinality(keep)
     /\ \A j \in keep : post[rank(j)] = pre[j]
     /\ (ret = "True") = (Cardinality(keep) < Len(pre))
     /\ (ret = "False") = (Cardinality(keep) = Len(pre))
     /\ save = (ret = "True")

\* C6: delete_task(id) removes all tasks with the id and no others, keeps
\* the others in their order, returns True and saves exactly when a task
\* was removed, and otherwise returns False without saving.
C6_DeleteRemovesAll ==
  Op = "delete_task" =>
    /\ RemovesAllWithId(preM, PostM, last.retM, last.saveM, last.call.task_id)
    /\ preJ.ok => /\ GetAllJ.ok
                  /\ RemovesAllWithId(preJ.tasks, GetAllJ.tasks, last.retJ,
                                      last.saveJ, last.call.task_id)

C6_Witness ==
  /\ Op = "delete_task"
  /\ Len(preM) = 2 /\ Len(PostM) = 0
  /\ preJ.ok /\ Len(preJ.tasks) = 2 /\ GetAllJ.ok /\ Len(GetAllJ.tasks) = 0
  /\ last.retM = "True" /\ last.retJ = "True"

\* add_task(task) as the claim describes it
AppendsAtEnd(pre, post, ret, save, task) ==
  /\ ret = "None"
  /\ save
  /\ Len(post) = Len(pre) + 1
  /\ \A j \in 1..Len(pre) : post[j] = pre[j]
  /\ post[Len(post)] = task

\* C7: add_task(t) always saves, and a load() afterwards returns the old
\* collection followed by t, every earlier element and t itself unchanged;
\* a task whose id is already present is appended all the same.
C7_AddAppends ==
  Op = "add_task" =>
    /\ AppendsAtEnd(preM, PostM, last.retM, last.saveM, objsM[last.call.task])
    /\ preJ.ok => /\ GetAllJ.ok
                  /\ AppendsAtEnd(preJ.tasks, GetAllJ.tasks, last.retJ,
                                  last.saveJ, objsJ[last.call.task])

C7_Witness ==
  /\ Op = "add_task"
  /\ HasId(preM, objsM[last.call.task].id)
  /\ preJ.ok /\ HasId(preJ.tasks, objsJ[last.call.task].id)
  /\ GetAllJ.ok /\ Len(GetAllJ.tasks) = 2 /\ Len(PostM) = 2

\* C8: every task of the stored collection has its priority in
\* {low, medium, high}, in memory and in the file.
C8_PriorityInvariant ==
  /\ \A j \in 1..Len(memTasks) :
       objsM[memTasks[j]].priority \in {"low", "medium", "high"}
  /\ \A j \in 1..Len(file.content) :
       json_load(file.content[j]).priority \in {"low", "medium", "high"}

\* C9: Task(...) succeeds when the priority is low, medium or high or is
\* left to its default, and fails with ValueError, producing no task, for
\* any other priority.
C9_ConstructionValidates ==
  tres # NotConstructed =>
    IF "priority" \notin DOMAIN tkw
         \/ tkw["priority"] \in {"low", "medium", "high"}
      THEN /\ tres.ok
           /\ tres.task.priority = Get(tkw, "priority", "medium")
           /\ tres.task.title = tkw["title"]
      ELSE /\ ~tres.ok
           /\ tres.err = "ValueError"
           /\ DOMAIN tres = {"ok", "err"}

C9_Witness ==
  /\ tres.ok
  /\ "priority" \in DOMAIN tkw
  /\ tkw["priority"] = "low"

\* C10: Task.from_dict(t.to_dict()) equals t field for field, for every Task
\* object t: those the caller holds and those a load() returns.
C10_RoundTrip ==
  \A t \in {objsM[j] : j \in 1..Len(objsM)}
           \cup {objsJ[j] : j \in 1..Len(objsJ)}
           \cup (IF GetAllJ.ok
                   THEN {GetAllJ.tasks[j] : j \in 1..Len(GetAllJ.tasks)}
                   ELSE {}) :
    LET back == from_dict(to_dict(t), RegenId(made), RegenTime(made))
    IN to_dict_callable(t) /\ back.ok /\ back.task = Fields(t)

\* ================================================== the read-only operations
\* service.py, search_tasks / filter_tasks / get_statistics and the getters.
\* TLA+ strings have no characters: Chars gives those of the strings used.
MaxRead == 3      \* length of the collection the read-only calls run on

Chars(str) ==
  CASE
       str = "Write documentation" -> <<"W", "r", "i", "t", "e", " ", "d", "o", "c", "u", "m", "e", "n", "t", "a", "t", "i", "o", "n">>
    [] str = "Fix bug" -> <<"F", "i", "x", " ", "b", "u", "g">>
    [] str = "Update docs" -> <<"U", "p", "d", "a", "t", "e", " ", "d", "o", "c", "s">>
    [] str = "Misc" -> <<"M", "i", "s", "c">>
    [] str = "" -> <<>>
    [] str = "see DOC" -> <<"s", "e", "e", " ", "D", "O", "C">>
    [] str = "doc" -> <<"d", "o", "c">>
    [] str = "DOC" -> <<"D", "O", "C">>
    [] str = "bug" -> <<"b", "u", "g">>
    [] str = "zzz" -> <<"z", "z", "z">>

UpperCase == <<"A", "B", "C", "D", "E", "F", "G", "H", "I", "J", "K", "L", "M",
               "N", "O", "P", "Q", "R", "S", "T", "U", "V", "W", "X", "Y", "Z">>
LowerCase == <<"a", "b", "c", "d", "e", "f", "g", "h", "i", "j", "k", "l", "m",
               "n", "o", "p", "q", "r", "s", "t", "u", "v", "w", "x", "y", "z">>

\* str.lower(), on the characters
str_lower(chars) ==
  [i \in 1..Len(chars) |->
     IF \E n \in 1..26 : UpperCase[n] = chars[i]
       THEN LowerCase[CHOOSE n \in 1..26 : UpperCase[n] = chars[i]]
       ELSE chars[i]]

\* Python's `sub in str`, on the characters
str_in(sub, chars) ==
  \E k \in 0..(Len(chars) - Len(sub)) :
    SubSeq(chars, k + 1, k + Len(sub)) = sub

\* a list comprehension [t for t in tasks if ...]: the elements at the
\* positions `keep`, in order, from position i on
RECURSIVE Comprehension(_, _, _)
Comprehension(tasks, keep, i) ==
  IF i > Len(tasks) THEN <<>>
  ELSE (IF i \in keep THEN <<tasks[i]>> ELSE <<>>)
       \o Comprehension(tasks, keep, i + 1)

\* what a read-only call returns: a list of tasks, one task or None,
\* or the statistics
ListOf(heap, tasks) == [kind |-> "list", tasks |-> Deref(heap, tasks)]
TaskOrNone(heap, task) ==
  IF task = 0 THEN [kind |-> "None"] ELSE [kind |-> "task", task |-> heap[task]]

get_all_tasks(heap, tasks) ==
  Outcome(heap, tasks, ListOf(heap, tasks), FALSE)

get_task_by_id(heap, tasks, task_id) ==
  LET i == FirstWithId(heap, tasks, task_id)
  IN Outcome(heap, tasks,
             TaskOrNone(heap, IF i = 0 THEN 0 ELSE tasks[i]), FALSE)

get_task_by_index_call(heap, tasks, index) ==
  Outcome(heap, tasks,
          TaskOrNone(heap, get_task_by_index(heap, tasks, index)), FALSE)

\* the condition of the list comprehension of search_tasks
SearchHit(task, keyword) ==
  LET keyword_lower == str_lower(Chars(keyword))
  IN \/ str_in(keyword_lower, str_lower(Chars(task.title)))
     \/ str_in(keyword_lower, str_lower(Chars(task.description)))

\* variant: only the title is searched
search_tasks_TitleOnly(heap, tasks, keyword) ==
  Outcome(heap, tasks,
          ListOf(heap, Comprehension(tasks,
            {i \in 1..Len(tasks) :
               str_in(str_lower(Chars(keyword)),
                      str_lower(Chars(heap[tasks[i]].title)))}, 1)), FALSE)

search_tasks(heap, tasks, keyword) ==
  Outcome(heap, tasks,
          ListOf(heap, Comprehension(tasks,
            {i \in 1..Len(tasks) : SearchHit(heap[tasks[i]], keyword)}, 1)),
          FALSE)

\* the filter functions the caller passes to filter_tasks
FilterFuncs == {"is_completed", "is_high"}
ApplyFilter(filter_func, task) ==
  IF filter_func = "is_completed" THEN task.completed
  ELSE task.priority = "high"

\* variant: the filtered list is saved
filter_tasks_Saving(heap, tasks, filter_func) ==
  LET kept == Comprehension(tasks,
                {i \in 1..Len(tasks) :
                   ApplyFilter(filter_func, heap[tasks[i]])}, 1)
  IN Outcome(heap, kept, ListOf(heap, kept), TRUE)

filter_tasks(heap, tasks, filter_func) ==
  Outcome(heap, tasks,
          ListOf(heap, Comprehension(tasks,
            {i \in 1..Len(tasks) :
               ApplyFilter(filter_func, heap[tasks[i]])}, 1)),
          FALSE)

\* variant: pending is not reduced by the completed tasks
get_statistics_PendingTotal(heap, tasks) ==
  Outcome(heap, tasks,
          [kind |-> "stats",
           stats |-> [get_statistics(Deref(heap, tasks)) EXCEPT
                        !.pending = Len(tasks)]], FALSE)

get_statistics_call(heap, tasks) ==
  Outcome(heap, tasks,
          [kind |-> "stats", stats |-> get_statistics(Deref(heap, tasks))],
          FALSE)

\* The tasks of the stored collection: the three of test_search_tasks, one
\* whose description holds the keyword in capitals and whose id repeats, and
\* one whose priority update_task has set outside the enumeration.
ReadPool ==
  << [title |-> "Write documentation", description |-> "",
      priority |-> "high", due_date |-> None, completed |-> FALSE,
      id |-> "u1", created_at |-> "t1"],
     [title |-> "Fix bug", description |-> "",
      priority |-> "medium", due_date |-> None, completed |-> TRUE,
      id |-> "u2", created_at |-> "t2"],
     [title |-> "Update docs", description |-> "",
      priority |-> "high", due_date |-> None, completed |-> FALSE,
      id |-> "u3", created_at |-> "t3"],
     [title |-> "Misc", description |-> "see DOC",
      priority |-> "low", due_date |-> "d1", completed |-> FALSE,
      id |-> "u1", created_at |-> "t4"],
     [title |-> "Fix bug", description |-> "",
      priority |-> "urgent", due_date |-> None, completed |-> TRUE,
      id |-> "u4", created_at |-> "t4"] >>

Keywords == {"doc", "DOC", "", "bug", "zzz"}
ReadIdArgs == {"u1", "zz"}
ReadIndexArgs == -1..MaxRead

SeqsUpTo(S, n) == UNION {[1..k -> S] : k \in 0..n}

ReadCallOf(op) == [op |-> op, keyword |-> "", task_id |-> "", index |-> 0,
                   filter_func |-> ""]

\* Both backends hold the same collection of at most MaxRead pool tasks.
InitRead ==
  /\ objsM = ReadPool
  /\ objsJ = ReadPool
  /\ memTasks \in SeqsUpTo(1..Len(ReadPool), MaxRead)
  /\ file = JSONStorage_save(Deref(ReadPool, memTasks))
  /\ ops = 0
  /\ last = [call |-> ReadCallOf("none"), retM |-> [kind |-> "None"],
             retJ |-> [kind |-> "None"], saveM |-> FALSE, saveJ |-> FALSE]
  /\ preM = Deref(ReadPool, memTasks)
  /\ preJ = JSONStorage_load(file, 0)
  /\ made = Cardinality(Defaulted(file))
  /\ tkw = [title |-> "a"]
  /\ tres = NotConstructed
  /\ stores = Idle /\ held = Idle /\ pc = Idle /\ local = Idle /\ pos = Idle /\ rd = Idle

ReadService(c, heap, tasks) ==
  CASE c.op = "get_all_tasks" -> get_all_tasks(heap, tasks)
    [] c.op = "get_task_by_id" -> get_task_by_id(heap, tasks, c.task_id)
    [] c.op = "get_task_by_index" ->
         get_task_by_index_call(heap, tasks, c.index)
    [] c.op = "search_tasks" -> search_tasks(heap, tasks, c.keyword)
    [] c.op = "filter_tasks" -> filter_tasks(heap, tasks, c.filter_func)
    [] c.op = "get_statistics" -> get_statistics_call(heap, tasks)

\* one read-only TaskService call, made on both services
ReadCall(c) ==
  /\ UNCHANGED <<ops, tkw, tres>>
  /\ UNCHANGED otherVars
  /\ preM' = GetAllM.tasks
  /\ preJ' = GetAllJ
  /\ made' = made + 2 * Cardinality(Defaulted(file))
  /\ LET rm == ReadService(c, objsM, InMemoryStorage_load(memTasks))
         \* the load of the method draws after the load that preJ records
         ld == JSONStorage_load(file, made + Cardinality(Defaulted(file)))
         n  == Len(objsJ)
         rj == ReadService(c, objsJ \o ld.tasks,
                           [i \in 1..Len(ld.tasks) |-> n + i])
     IN /\ objsM' = rm.heap
        /\ memTasks' = IF rm.save THEN InMemoryStorage_save(rm.tasks)
                       ELSE memTasks
        /\ IF ld.ok
             THEN /\ objsJ' = SubSeq(rj.heap, 1, n)
                  /\ file' = IF rj.save
                               THEN JSONStorage_save_call(
                                      file, Deref(rj.heap, rj.tasks)).file
                               ELSE file
                  /\ last' = [call |-> c, retM |-> rm.ret, retJ |-> rj.ret,
                              saveM |-> rm.save, saveJ |-> rj.save]
             ELSE /\ UNCHANGED <<objsJ, file>>
                  /\ last' = [call |-> c, retM |-> rm.ret,
                              retJ |-> [kind |-> "raise", err |-> ld.err],
                              saveM |-> rm.save, saveJ |-> FALSE]

GetAllTasks == ReadCall(ReadCallOf("get_all_tasks"))

GetTaskById(task_id) ==
  ReadCall([ReadCallOf("get_task_by_id") EXCEPT !.task_id = task_id])

GetTaskByIndex(index) ==
  ReadCall([ReadCallOf("get_task_by_index") EXCEPT !.index = index])

SearchTasks(keyword) ==
  ReadCall([ReadCallOf("search_tasks") EXCEPT !.keyword = keyword])

FilterTasks(filter_func) ==
  ReadCall([ReadCallOf("filter_tasks") EXCEPT !.filter_func = filter_func])

GetStatistics == ReadCall(ReadCallOf("get_statistics"))

NextRead ==
  \/ GetAllTasks
  \/ \E task_id \in ReadIdArgs : GetTaskById(task_id)
  \/ \E index \in ReadIndexArgs : GetTaskByIndex(index)
  \/ \E keyword \in Keywords : SearchTasks(keyword)
  \/ \E filter_func \in FilterFuncs : FilterTasks(filter_func)
  \/ GetStatistics

SpecRead == InitRead /\ [][NextRead]_vars

\* --------------------------------------------- claims on the read-only calls
\* two characters equal up to the case of a letter
SameLetter(a, b) ==
  \/ a = b
  \/ \E n \in 1..26 : {a, b} = {UpperCase[n], LowerCase[n]}

\* sub occurs in chars, letters compared without regard to case
OccursIgnoringCase(sub, chars) ==
  \E k \in 0..(Len(chars) - Len(sub)) :
    \A i \in 1..Len(sub) : SameLetter(sub[i], chars[k + i])

\* res holds exactly the elements of pre at the positions `keep`, in order
IsSelection(pre, res, keep) ==
  /\ Len(res) = Cardinality(keep)
  /\ \A j \in keep : res[Cardinality({k \in keep : k <= j})] = pre[j]

SearchReturnsMatches(pre, ret, keyword) ==
  /\ ret.kind = "list"
  /\ IsSelection(pre, ret.tasks,
       {j \in 1..Len(pre) :
          \/ OccursIgnoringCase(Chars(keyword), Chars(pre[j].title))
          \/ OccursIgnoringCase(Chars(keyword), Chars(pre[j].description))})

\* C11: search_tasks(keyword) returns exactly the tasks of the loaded
\* collection whose title or description contains the keyword, compared
\* without regard to case, in storage order, each once.
C11_SearchMatches ==
  last.call.op = "search_tasks" =>
    /\ SearchReturnsMatches(preM, last.retM, last.call.keyword)
    /\ preJ.ok => SearchReturnsMatches(preJ.tasks, last.retJ,
                                       last.call.keyword)

\* "doc" over "Write documentation", "Fix bug", "Update docs"
C11_Witness ==
  /\ last.call.op = "search_tasks"
  /\ last.call.keyword = "doc"
  /\ Len(preM) = 3
  /\ preM[1].title = "Write documentation"
  /\ preM[2].title = "Fix bug"
  /\ preM[3].title = "Update docs"
  /\ last.retM.tasks = <<preM[1], preM[3]>>
  /\ preJ.ok /\ last.retJ.tasks = <<preJ.tasks[1], preJ.tasks[3]>>

\* the number of elements of tasks from position i on that satisfy Test
RECURSIVE Tally(_, _, _)
Tally(tasks, Test(_), i) ==
  IF i > Len(tasks) THEN 0
  ELSE (IF Test(tasks[i]) THEN 1 ELSE 0) + Tally(tasks, Test, i + 1)

StatisticsCount(pre, ret) ==
  /\ ret.kind = "stats"
  /\ ret.stats.total = Len(pre)
  /\ ret.stats.completed = Tally(pre, LAMBDA t : t.completed, 1)
  /\ ret.stats.pending = ret.stats.total - ret.stats.completed
  /\ DOMAIN ret.stats.by_priority = {"low", "medium", "high"}
  /\ \A p \in {"low", "medium", "high"} :
       ret.stats.by_priority[p] = Tally(pre, LAMBDA t : t.priority = p, 1)

\* C12: get_statistics() returns the number of tasks, the number of
\* completed tasks, pending = total - completed, and for each of low, medium
\* and high the number of tasks with that priority.
C12_Statistics ==
  last.call.op = "get_statistics" =>
    /\ StatisticsCount(preM, last.retM)
    /\ preJ.ok => StatisticsCount(preJ.tasks, last.retJ)

\* priorities [high, medium, high], one completed
C12_Witness ==
  /\ last.call.op = "get_statistics"
  /\ Len(preM) = 3
  /\ <<preM[1].priority, preM[2].priority, preM[3].priority>>
       = <<"high", "medium", "high">>
  /\ last.retM.stats = [total |-> 3, completed |-> 1, pending |-> 2,
                        by_priority |-> [high |-> 2, medium |-> 1, low |-> 0]]
  /\ preJ.ok /\ last.retJ.stats = last.retM.stats

ReadOps == {"get_all_tasks", "get_task_by_id", "get_task_by_index",
            "search_tasks", "filter_tasks", "get_statistics"}

\* C16: the read-only operations never call save() and leave the stored
\* collection as it was; get_all_tasks returns the full collection in
\* storage order.
C16_ReadsDoNotWrite ==
  last.call.op \in ReadOps =>
    /\ ~last.saveM /\ ~last.saveJ
    /\ GetAllM.tasks = preM
    /\ GetAllJ = preJ
    /\ last.call.op = "get_all_tasks" =>
         /\ last.retM = [kind |-> "list", tasks |-> preM]
         /\ preJ.ok => last.retJ = [kind |-> "list", tasks |-> preJ.tasks]

C16_Witness ==
  /\ last.call.op = "filter_tasks"
  /\ Len(preM) = 3 /\ Len(last.retM.tasks) = 1
  /\ preJ.ok /\ Len(last.retJ.tasks) = 1
  /\ Len(GetAllM.tasks) = 3 /\ Len(GetAllJ.tasks) = 3

\* ============================================ two services over one storage
\* service.py, TaskService.__init__: an instance keeps the storage it is
\* given and nothing else; every method starts with self.storage.load().
MaxShared == 3    \* calls the two services make

TaskService(storage) == [storage |-> storage]

\* an InMemoryStorage() and a JSONStorage(filename), as constructed
Backends == << [kind |-> "memory", tasks |-> <<>>, file |-> NoFile],
               [kind |-> "json", tasks |-> <<>>, file |-> NoFile] >>

\* variant: each service works on a backend of its own
self_storage_Own(services, s) == s

\* self.storage of service s
self_storage(services, s) == services[s].storage

\* storage.load() on a backend: the references of the returned list; a file
\* load builds fresh Task objects, placed after the caller's
storage_load(b, heap, n) ==
  IF b.kind = "memory"
    THEN [ok |-> TRUE, err |-> "", heap |-> heap,
          tasks |-> InMemoryStorage_load(b.tasks)]
  ELSE LET ld == JSONStorage_load(b.file, n)
       IN IF ld.ok
            THEN [ok |-> TRUE, err |-> "", heap |-> heap \o ld.tasks,
                  tasks |-> [i \in 1..Len(ld.tasks) |-> Len(heap) + i]]
            ELSE [ok |-> FALSE, err |-> ld.err, heap |-> heap,
                  tasks |-> <<>>]

\* storage.save(tasks) on a backend: the backend after it
storage_save(b, heap, tasks) ==
  IF b.kind = "memory"
    THEN [b EXCEPT !.tasks = InMemoryStorage_save(tasks)]
    ELSE [b EXCEPT !.file = JSONStorage_save_call(@, Deref(heap, tasks)).file]

\* the error storage.save(tasks) raises, "" for none
storage_save_error(b, heap, tasks) ==
  IF b.kind = "memory" THEN ""
  ELSE JSONStorage_save_call(b.file, Deref(heap, tasks)).err

\* the Task objects the callers hold
SharedPool ==
  << Task([title |-> "a"], Uuids[1], Times[1]).task,
     Task(Kwargs("b", "high", "x"), Uuids[2], Times[2]).task >>

SharedService(c, heap, tasks, again) ==
  IF c.op = "get_all_tasks" THEN get_all_tasks(heap, tasks)
  ELSE Service(c, heap, tasks, again)

\* Two services are constructed over the same backend, either kind.
InitShared ==
  /\ objsM = SharedPool
  /\ stores \in {[backends |-> Backends,
                  services |-> <<TaskService(k), TaskService(k)>>] :
                   k \in 1..Len(Backends)}
  /\ ops = 0
  /\ last = [call |-> NoCall, svc |-> 0, prev_by |-> 0,
             input |-> [ok |-> TRUE, tasks |-> <<>>], save |-> FALSE]
  /\ preM = <<>>
  /\ preJ = [ok |-> TRUE, tasks |-> <<>>, by |-> 0]
  /\ memTasks = <<>> /\ objsJ = <<>> /\ file = NoFile
  /\ tkw = [title |-> "a"] /\ tres = NotConstructed
  /\ held = Idle /\ pc = Idle /\ local = Idle /\ pos = Idle /\ rd = Idle
  /\ made = 0

\* one call on service s, run to completion.  History: last.input is the
\* collection the method computed from, preJ the collection the most recent
\* saving call handed to save(), preM that collection before this call.
SharedCall(s, c) ==
  /\ ops < MaxShared
  /\ ops' = ops + 1
  /\ preM' = preJ.tasks
  /\ UNCHANGED <<memTasks, objsJ, file, tkw, tres, held, pc, local, pos, rd>>
  /\ LET k   == self_storage(stores.services, s)
         b   == stores.backends[k]
         d   == IF b.kind = "json" THEN Cardinality(Defaulted(b.file)) ELSE 0
         ld  == storage_load(b, objsM, made)
         l2  == storage_load(b, ld.heap, made + d)
         out == SharedService(c, l2.heap, ld.tasks, l2.tasks)
         err == IF out.save THEN storage_save_error(b, out.heap, out.tasks)
                ELSE ""
         \* the call changed what the storage holds: it saved, or it set
         \* attributes of a stored Task object before raising
         changed == \/ out.save /\ err = ""
                    \/ b.kind = "memory" /\ out.heap # objsM
     IN IF Loads(c, objsM, <<>>) = 0
          \* the call raises before it loads
          THEN /\ UNCHANGED <<objsM, stores, preJ, made>>
               /\ last' = [call |-> c, svc |-> s, prev_by |-> preJ.by,
                           input |-> [ok |-> FALSE, tasks |-> <<>>],
                           save |-> FALSE]
        ELSE IF ld.ok
          THEN /\ objsM' = SubSeq(out.heap, 1, Len(objsM))
               /\ made' = made + d * Loads(c, l2.heap, ld.tasks)
               /\ stores' = IF out.save
                              THEN [stores EXCEPT !.backends[k] =
                                      storage_save(@, out.heap, out.tasks)]
                              ELSE stores
               /\ preJ' = IF changed
                            THEN [ok |-> TRUE, by |-> s,
                                  tasks |-> Deref(out.heap,
                                                  IF out.save THEN out.tasks
                                                  ELSE l2.tasks)]
                            ELSE preJ
               /\ last' = [call |-> c, svc |-> s, prev_by |-> preJ.by,
                           input |-> [ok |-> TRUE,
                                      tasks |-> Deref(ld.heap, ld.tasks)],
                           save |-> out.save]
          ELSE /\ UNCHANGED <<objsM, stores, preJ>>
               /\ made' = made + d
               /\ last' = [call |-> c, svc |-> s, prev_by |-> preJ.by,
                           input |-> [ok |-> FALSE, tasks |-> <<>>],
                           save |-> FALSE]

SharedAdd(s, o) ==
  /\ Len(preJ.tasks) < MaxTasks
  /\ SharedCall(s, [NoCall EXCEPT !.op = "add_task", !.task = o])

SharedUpdate(s, task_id, updates) ==
  SharedCall(s, [NoCall EXCEPT !.op = "update_task", !.task_id = task_id,
                               !.updates = updates])

SharedDelete(s, task_id) ==
  SharedCall(s, [NoCall EXCEPT !.op = "delete_task", !.task_id = task_id])

SharedDeleteByIndex(s, index) ==
  SharedCall(s, [NoCall EXCEPT !.op = "delete_task_by_index",
                               !.index = index])

SharedCompleteByIndex(s, index) ==
  SharedCall(s, [NoCall EXCEPT !.op = "complete_task_by_index",
                               !.index = index])

SharedGetAll(s) == SharedCall(s, [NoCall EXCEPT !.op = "get_all_tasks"])

NextShared ==
  \E s \in 1..2 :
    \/ \E o \in 1..Len(objsM) : SharedAdd(s, o)
    \/ \E task_id \in IdArgs, u \in UpdateSets : SharedUpdate(s, task_id, u)
    \/ \E task_id \in IdArgs : SharedDelete(s, task_id)
    \/ \E index \in IndexArgs : SharedDeleteByIndex(s, index)
    \/ \E index \in IndexArgs : SharedCompleteByIndex(s, index)
    \/ SharedGetAll(s)

SpecShared == InitShared /\ [][NextShared]_vars

\* C13: with two services over one storage, every call of either service
\* that gets a collection from load() computes from the collection exactly
\* as the most recent saving call of either service left it.
C13_NoDivergence ==
  (last.svc # 0 /\ last.input.ok) => last.input.tasks = preM

\* service 2 changes the collection that service 1 saved one call before
C13_Witness ==
  /\ last.svc = 2 /\ last.prev_by = 1
  /\ last.input.ok /\ Len(last.input.tasks) = 2
  /\ last.input.tasks = preM
  /\ last.save /\ preJ.by = 2 /\ preJ.tasks # preM

\* ================================================ InMemoryStorage alone
\* storage.py, InMemoryStorage: a caller saves and loads lists and then
\* changes the list it holds, or a Task reached through it.  tasks.copy()
\* makes a new list of the same Task objects, so `held` and memTasks are two
\* lists of references into one heap.
MaxHeld == 2      \* length of the list the caller holds
MaxMemOps == 4    \* steps of the caller

FieldWrites == { [field |-> "title", value |-> "z"],
                 [field |-> "due_date", value |-> "d9"] }

InitMem ==
  /\ objsM = SharedPool
  /\ memTasks = <<>>
  /\ held = <<>>
  /\ ops = 0
  /\ last = [op |-> "none"]
  /\ preM = <<>>
  /\ preJ = [ok |-> TRUE, tasks |-> <<>>]
  /\ objsJ = <<>> /\ file = NoFile
  /\ tkw = [title |-> "a"] /\ tres = NotConstructed
  /\ stores = Idle /\ pc = Idle /\ local = Idle /\ pos = Idle /\ rd = Idle
  /\ made = 0

MemStep(op) ==
  /\ ops < MaxMemOps
  /\ ops' = ops + 1
  /\ last' = [op |-> op]
  /\ UNCHANGED <<objsJ, file, preJ, tkw, tres, stores, pc, local, made, pos,
               rd>>

\* storage.save(held);  preM records what load() returns at this point
CallerSave ==
  /\ MemStep("save")
  /\ memTasks' = InMemoryStorage_save(held)
  /\ preM' = Deref(objsM, InMemoryStorage_load(memTasks'))
  /\ UNCHANGED <<objsM, held>>

\* held = storage.load()
CallerLoad ==
  /\ MemStep("load")
  /\ held' = InMemoryStorage_load(memTasks)
  /\ preM' = Deref(objsM, held')
  /\ UNCHANGED <<objsM, memTasks>>

\* held.append(task)
CallerAppend(o) ==
  /\ Len(held) < MaxHeld
  /\ MemStep("append")
  /\ held' = Append(held, o)
  /\ UNCHANGED <<objsM, memTasks, preM>>

\* held.pop(index)
CallerPop(index) ==
  /\ index \in 0..(Len(held) - 1)
  /\ MemStep("pop")
  /\ held' = Pop(held, index)
  /\ UNCHANGED <<objsM, memTasks, preM>>

\* held[index].field = value
CallerSetField(index, w) ==
  /\ index \in 0..(Len(held) - 1)
  /\ MemStep("setattr")
  /\ objsM' = [objsM EXCEPT ![held[index + 1]] = setattr(@, w.field, w.value)]
  /\ UNCHANGED <<memTasks, held, preM>>

NextMem ==
  \/ CallerSave
  \/ CallerLoad
  \/ \E o \in 1..Len(objsM) : CallerAppend(o)
  \/ \E index \in 0..(MaxHeld - 1) : CallerPop(index)
  \/ \E index \in 0..(MaxHeld - 1), w \in FieldWrites :
       CallerSetField(index, w)

SpecMem == InitMem /\ [][NextMem]_vars

\* C14: after save(c) and after load(), nothing the caller does through the
\* list it holds (append, remove, change a field of a task reached through
\* it) changes the length, order or any task field of what load() returns.
C14_Isolated ==
  Deref(objsM, InMemoryStorage_load(memTasks)) = preM

\* ==================================================== JSONStorage alone
\* storage.py, JSONStorage: a caller loads files of every kind and saves
\* collections; save is open(filename, 'w'), which empties the file, and
\* then json.dump, whose text reaches the file write by write, the last
\* write at the close.
MaxRecords == 2   \* records of a file that is there at the start
MaxSave == 2      \* length of a collection given to save()
MaxFileOps == 3   \* load() and save() calls

GoodRecord == json_dump(to_dict(SharedPool[1]))
Without(rec, k) == [x \in DOMAIN rec \ {k} |-> rec[x]]
With(rec, k, v) == [x \in DOMAIN rec \cup {k} |-> IF x = k THEN v ELSE rec[x]]

\* the records a file may hold: one that save() wrote, one without id, one
\* without title, one with a key Task does not have, one whose priority is
\* outside the enumeration
RecordPool ==
  { GoodRecord,
    Without(GoodRecord, "id"),
    Without(GoodRecord, "title"),
    With(GoodRecord, "color", <<"string", "red">>),
    With(GoodRecord, "priority", <<"string", "urgent">>) }

\* the files load() may meet: none, an empty one, a text cut short, a JSON
\* text laid out by hand, a list of records as json.dump writes it
Files ==
  {NoFile, open_w(NoFile), File("[\n  {\n    \"id\": "), File("[ ]\n")}
  \cup {File(dumps(c)) : c \in SeqsUpTo(RecordPool, MaxRecords)}

\* the Task objects given to save(): the last two are one whose due_date is
\* a date object and one whose text does not fit the buffers of the handle
SavePool == << SharedPool[1], SharedPool[2],
               [SharedPool[2] EXCEPT !.due_date = DateObject],
               [SharedPool[1] EXCEPT !.description = LongText] >>

\* the collections given to save(): up to MaxSave tasks of the pool
SaveArgs ==
  {Deref(SavePool, picks) :
     picks \in {s \in SeqsUpTo(1..Len(SavePool), MaxSave) :
                  \A i \in 1..(Len(s) - 1) : s[i] < s[i + 1]}}

Done(op, res) == [op |-> op, res |-> res]
Raised(err, names_file) ==
  [ok |-> FALSE, err |-> err, names_file |-> names_file]

\* preJ is what a load() of the file returns at the start
InitFile ==
  /\ file \in Files
  /\ pc = "closed"
  /\ held = <<>>
  /\ pos = 0
  /\ ops = 0
  /\ last = Done("none", [ok |-> TRUE])
  /\ preJ = JSONStorage_load(file, 0)
  /\ made = Cardinality(Defaulted(file))
  /\ objsM = <<>> /\ memTasks = <<>> /\ objsJ = <<>> /\ preM = <<>>
  /\ tkw = [title |-> "a"] /\ tres = NotConstructed
  /\ stores = Idle /\ local = Idle /\ rd = Idle

FileFrame ==
  UNCHANGED <<objsM, memTasks, objsJ, preM, tkw, tres, stores, local, rd>>

\* storage.load()
FileLoad ==
  /\ pc = "closed" /\ ops < MaxFileOps
  /\ ops' = ops + 1
  /\ last' = Done("load", JSONStorage_load(file, made))
  /\ made' = made + Cardinality(Defaulted(file))
  /\ UNCHANGED <<file, pc, held, preJ, pos>>
  /\ FileFrame

\* storage.save(tasks) up to open(filename, 'w'): the file is there and
\* empty, the handle is at its start.  preJ records what a load() returned
\* before the save.
SaveOpen(tasks) ==
  /\ pc = "closed" /\ ops < MaxFileOps
  /\ ops' = ops + 1
  /\ held' = tasks
  /\ preJ' = JSONStorage_load(file, made)
  /\ made' = made + Cardinality(Defaulted(file))
  /\ file' = open_w(file)
  /\ pos' = 0
  /\ pc' = "open"
  /\ last' = Done("save: open", [ok |-> TRUE])
  /\ FileFrame

\* open() raises IOError (permissions): caught, raised again with the name
SaveOpenFails(tasks) ==
  /\ pc = "closed" /\ ops < MaxFileOps
  /\ ops' = ops + 1
  /\ held' = tasks
  /\ preJ' = JSONStorage_load(file, made)
  /\ made' = made + Cardinality(Defaulted(file))
  /\ last' = Done("save", Raised("IOError", TRUE))
  /\ UNCHANGED <<file, pc, pos>>
  /\ FileFrame

\* one write of json.dump; the last one is made by the close, after which
\* save returns, or raises the TypeError that cut the text short (the
\* except clause catches IOError only)
SaveDump ==
  /\ pc = "open"
  /\ LET write == next_write(held, pos)
         data == write.data
         end == write.last
     IN /\ file' = File(write_at(Text(file), pos, data))
        /\ pos' = pos + Len(data)
        /\ pc' = IF end THEN "closed" ELSE "open"
        /\ last' = IF ~end THEN Done("save: write", [ok |-> TRUE])
                   ELSE IF Serializable(held) THEN Done("save", [ok |-> TRUE])
                   ELSE Done("save", Raised("TypeError", FALSE))
  /\ UNCHANGED <<ops, held, preJ, made>>
  /\ FileFrame

\* what a write of `data` that fails (disk full) puts in the file before
\* it fails: nothing, or a part of the data that is not all of it
CutShort(data) ==
  {Sub(data, 1, k) : k \in {0, 1, Len(data) \div 2, Len(data) - 1}
                           \cap 0..(Len(data) - 1)}

\* a write raises IOError (disk full), after a part of its data has gone to
\* the file: raised again with the name.  The file keeps what was written.
SaveDumpFails ==
  /\ pc = "open"
  /\ \E part \in CutShort(next_write(held, pos).data) :
       /\ file' = File(write_at(Text(file), pos, part))
       /\ pos' = pos + Len(part)
  /\ pc' = "closed"
  /\ last' = Done("save", Raised("IOError", TRUE))
  /\ UNCHANGED <<ops, held, preJ, made>>
  /\ FileFrame

NextFile ==
  \/ FileLoad
  \/ \E tasks \in SaveArgs : SaveOpen(tasks)
  \/ \E tasks \in SaveArgs : SaveOpenFails(tasks)
  \/ SaveDump
  \/ SaveDumpFails

SpecFile == InitFile /\ [][NextFile]_vars

\* C15: every failure of file-backed load() or save() reaches the caller as
\* an IOError that carries the file path, never as another kind of error.
C15_FailuresAreIOError ==
  (last.op \in {"load", "save"} /\ ~last.res.ok) =>
    (last.res.err = "IOError" /\ last.res.names_file)

\* what a load() returned, leaving aside the values the default factories
\* gave (they differ from one load to the next)
FromFactory ==
  {RegenId(k) : k \in 1..(made + MaxRecords)}
  \cup {RegenTime(k) : k \in 1..(made + MaxRecords)}
Collection(ld) ==
  IF ~ld.ok THEN ld
  ELSE [ok |-> TRUE,
        tasks |-> [i \in 1..Len(ld.tasks) |->
                     [ld.tasks[i] EXCEPT
                        !.id = IF @ \in FromFactory THEN "uuid4()" ELSE @,
                        !.created_at = IF @ \in FromFactory THEN "now()"
                                       ELSE @]]]

\* C17: at every point of a save, and after a save that failed, load() sees
\* the complete collection saved before or the complete new one; a failed
\* save leaves the collection saved before.
C17_AtomicRewrite ==
  /\ pc = "open" =>
       \/ Collection(JSONStorage_load(file, made)) = Collection(preJ)
       \/ Collection(JSONStorage_load(file, made))
            = Collection(JSONStorage_load(JSONStorage_save(held), made))
  /\ (last.op = "save" /\ ~last.res.ok) =>
       Collection(JSONStorage_load(file, made)) = Collection(preJ)

\* ============================================ processes sharing one file
\* service.py, add_task, run by processes that share one JSONStorage file
\* and take no lock.  A process runs load(), append, and save().  load() is
\* os.path.exists, open(filename, 'r') and json.load, which reads the file
\* to its end, read by read, and then parses what it has read.  save() is
\* open(filename, 'w'), which empties the file, and json.dump, whose text
\* goes to the file write by write at the position of the process's own
\* handle.  Every one of these is a step of its own, and the file is the
\* only thing the processes share.
MaxProcs == 2     \* processes

Procs == 1..MaxProcs

\* the Task each process adds, for every kind of run: all short, all with a
\* description that does not fit the buffers of the handle, only the first
\* one long, the first one with a date object as due_date
RaceTasks ==
  LET ShortTask(p) == Task([title |-> "a"], Uuids[p], Times[p]).task
      LongTask(p) == Task([title |-> "a", description |-> LongText],
                          Uuids[p], Times[p]).task
  IN
  { [p \in Procs |-> ShortTask(p)],
    [p \in Procs |-> LongTask(p)],
    [p \in Procs |-> IF p = 1 THEN LongTask(p) ELSE ShortTask(p)],
    [p \in Procs |-> IF p = 1 THEN [ShortTask(p) EXCEPT !.due_date = DateObject]
                     ELSE ShortTask(p)] }

\* the Task process p adds
ProcTask(p) == objsM[p]

\* f.read() of json.load reads the file to its end (FileIO.readall): into a
\* buffer one byte longer than the file is when the reading starts, or of
\* SmallChunk bytes for an empty file, which grows when it is full
SmallChunk == 8192    \* SMALLCHUNK

new_buffersize(currentsize) ==
  LET addend == IF currentsize > 65536 THEN currentsize \div 8
                ELSE 256 + currentsize
  IN currentsize + (IF addend < SmallChunk THEN SmallChunk ELSE addend)

\* read(fd, n) at the position `offset` of the handle: up to n bytes of the
\* text as it is now, none at its end
read_at(text, offset, n) ==
  IF offset >= Len(text) THEN "" ELSE Sub(text, offset + 1, offset + n)

\* History: the processes that have opened the file for writing, those
\* among them whose save has ended, in the order in which the saves ended,
\* whether a process opened the file for writing while another had it open
\* so, and for each process the processes that had opened the file for
\* writing when its load ended.
InitRace ==
  /\ file \in {NoFile, JSONStorage_save(<<SharedPool[2]>>)}
  /\ objsM \in RaceTasks
  /\ pc = [p \in Procs |-> "start"]
  /\ local = [p \in Procs |-> <<>>]
  /\ pos = [p \in Procs |-> 0]
  /\ rd = [p \in Procs |-> [text |-> "", bufsize |-> 0]]
  /\ last = [opened |-> {}, closed |-> <<>>, overlap |-> FALSE,
             seen |-> [p \in Procs |-> {}]]
  /\ ops = 0
  /\ preJ = [ok |-> TRUE, tasks |-> <<>>]
  /\ memTasks = <<>> /\ objsJ = <<>> /\ preM = <<>>
  /\ tkw = [title |-> "a"] /\ tres = NotConstructed
  /\ stores = Idle /\ held = Idle
  /\ made = 0

RaceFrame ==
  UNCHANGED <<ops, preJ, objsM, memTasks, objsJ, preM, tkw, tres, stores, held>>

\* tasks = self.storage.load(), up to os.path.exists(self.filename): with no
\* file load() returns [], and tasks.append(task) follows
ProcExists(p) ==
  /\ pc[p] = "start"
  /\ IF file.exists
       THEN /\ pc' = [pc EXCEPT ![p] = "found"]
            /\ UNCHANGED <<local, last>>
       ELSE /\ pc' = [pc EXCEPT ![p] = "loaded"]
            /\ local' = [local EXCEPT ![p] = <<ProcTask(p)>>]
            /\ last' = [last EXCEPT !.seen[p] = last.opened]
  /\ UNCHANGED <<file, pos, rd, made>>
  /\ RaceFrame

\* open(self.filename, 'r', encoding='utf-8'): the file is there, no process
\* removes it
ProcOpenRead(p) ==
  /\ pc[p] = "found"
  /\ pc' = [pc EXCEPT ![p] = "opened_r"]
  /\ UNCHANGED <<file, pos, rd, made, local, last>>
  /\ RaceFrame

\* json.load(f), f.read(): the size of the file gives the buffer
ProcStat(p) ==
  /\ pc[p] = "opened_r"
  /\ pc' = [pc EXCEPT ![p] = "reading"]
  /\ LET size == Len(Text(file))
         bufsize == IF size > 0 THEN size + 1 ELSE SmallChunk
     IN rd' = [rd EXCEPT ![p] = [text |-> "", bufsize |-> bufsize]]
  /\ UNCHANGED <<file, pos, made, local, last>>
  /\ RaceFrame

\* one read of f.read() that finds bytes to read, into what is left of the
\* buffer, which has grown if it was full
ProcRead(p) ==
  /\ pc[p] = "reading"
  /\ LET have == Len(rd[p].text)
         bufsize == IF have >= rd[p].bufsize THEN new_buffersize(have)
                    ELSE rd[p].bufsize
         data == read_at(Text(file), have, bufsize - have)
     IN /\ data # ""
        /\ rd' = [rd EXCEPT ![p] = [text |-> rd[p].text \o data,
                                    bufsize |-> bufsize]]
  /\ UNCHANGED <<file, pos, pc, made, local, last>>
  /\ RaceFrame

\* the read that finds the end of the file: json.load parses what was read,
\* from_dict makes the tasks, the file is closed; tasks.append(task)
ProcReadEnd(p) ==
  /\ pc[p] = "reading"
  /\ read_at(Text(file), Len(rd[p].text), 1) = ""
  /\ LET f == File(rd[p].text)
         ld == JSONStorage_load(f, made)
     IN /\ made' = made + Cardinality(Defaulted(f))
        /\ IF ld.ok
             THEN /\ local' = [local EXCEPT ![p] = Append(ld.tasks, ProcTask(p))]
                  /\ pc' = [pc EXCEPT ![p] = "loaded"]
             ELSE /\ pc' = [pc EXCEPT ![p] = "raised"]
                  /\ UNCHANGED local
  /\ rd' = [rd EXCEPT ![p] = [text |-> "", bufsize |-> 0]]
  /\ last' = [last EXCEPT !.seen[p] = last.opened]
  /\ UNCHANGED <<file, pos>>
  /\ RaceFrame

\* self.storage.save(tasks), up to the open
ProcOpen(p) ==
  /\ pc[p] = "loaded"
  /\ file' = open_w(file)
  /\ pos' = [pos EXCEPT ![p] = 0]
  /\ pc' = [pc EXCEPT ![p] = "opened"]
  /\ last' = [last EXCEPT
                !.opened = @ \cup {p},
                !.overlap = @ \/ \E q \in Procs : pc[q] = "opened"]
  /\ UNCHANGED <<local, made, rd>>
  /\ RaceFrame

\* one write of json.dump; the last one is made by the close, after which
\* add_task returns, or raises the TypeError that cut the text short
ProcDump(p) ==
  /\ pc[p] = "opened"
  /\ LET write == next_write(local[p], pos[p])
         data == write.data
         end == write.last
     IN /\ file' = File(write_at(Text(file), pos[p], data))
        /\ pos' = [pos EXCEPT ![p] = @ + Len(data)]
        /\ pc' = [pc EXCEPT ![p] = IF ~end THEN "opened"
                                   ELSE IF Serializable(local[p]) THEN "done"
                                   ELSE "raised"]
        /\ last' = IF end THEN [last EXCEPT !.closed = Append(@, p)] ELSE last
  /\ UNCHANGED <<local, made, rd>>
  /\ RaceFrame

NextRace ==
  \E p \in Procs :
    \/ ProcExists(p) \/ ProcOpenRead(p) \/ ProcStat(p)
    \/ ProcRead(p) \/ ProcReadEnd(p)
    \/ ProcOpen(p) \/ ProcDump(p)

SpecRace == InitRace /\ [][NextRace]_vars

LastWriter == last.closed[Len(last.closed)]
Stored == JSONStorage_load(file, made)
HasTaskOf(tasks, p) == \E i \in 1..Len(tasks) : tasks[i].id = ProcTask(p).id

\* C18: with no lock, when every add_task has returned without error and
\* each save ran without another (no process opened the file for writing
\* while another had it open so), the file holds the last writer's
\* collection and nothing else: the task of each process that had not begun
\* its save when the last writer's load ended is missing.  The loads
\* interleave with everything, read by read.
C18_LastWriterWins ==
  ((\A p \in Procs : pc[p] = "done") /\ ~last.overlap) =>
     /\ Stored.ok
     /\ Stored.tasks = local[LastWriter]
     /\ \A q \in Procs \ {LastWriter} :
          q \notin last.seen[LastWriter] => ~HasTaskOf(Stored.tasks, q)

\* both calls loaded, then each saved, and returned; process 2 wrote last,
\* the task of process 1 is lost
C18_Witness ==
  /\ pc[1] = "done" /\ pc[2] = "done"
  /\ ~last.overlap
  /\ last.seen[1] = {} /\ last.seen[2] = {}
  /\ LastWriter = 2
  /\ Stored.ok
  /\ HasTaskOf(Stored.tasks, 2) /\ ~HasTaskOf(Stored.tasks, 1)

\* ------------------------------------------ the file after service calls
ServiceOps == {"add_task", "update_task", "delete_task",
               "delete_task_by_index", "complete_task",
               "complete_task_by_index"}

\* C19: after service calls that each returned without error, the next
\* load() of the file-backed store succeeds and returns the collection the
\* last save() wrote.
C19_StaysLoadable ==
  (last.call.op \in ServiceOps /\ preJ.ok) =>
     /\ GetAllJ.ok
     /\ file.exists => JSONStorage_save(GetAllJ.tasks) = file

====
